---- MODULE Spec2Model ----
(***************************************************************************)
(* Museum Smart System (src/main.py, src/database.py): the visitor table   *)
(* with its three UNIQUE columns, the registration / credential-link       *)
(* handlers and the gate scan.                                             *)
(*                                                                         *)
(* Four specifications share the same handler operators:                   *)
(*   Spec      every handler runs as one step (one request at a time);     *)
(*   SpecConc  the handlers of two worker threads interleave at their      *)
(*             database round trips (each SELECT, and the final COMMIT);   *)
(*   SpecBoard the photo competition next to registration and the gate,    *)
(*             one request at a time, while the clock advances;            *)
(*   SpecLife  the writes to one visitor's row, while the clock advances.  *)
(***************************************************************************)
EXTENDS Integers, Sequences, FiniteSets, TLC

VARIABLES
    visitors,   \* the visitor table: id |-> row
    req,        \* per worker thread: the request it is in the middle of
    last,       \* the response of the most recent call that returned
    photos,     \* the photosubmission table: id |-> row
    rooms,      \* the room table: id |-> name
    now         \* datetime.utcnow(), in hours since start-up

vars == <<visitors, req, last, photos, rooms, now>>

----------------------------------------------------------------------------
(* Bounds and input domains *)

\* distinct credential strings the requests draw from
NumTokens == 2

\* rows the photosubmission table may hold
MaxPhotos == 4
\* hours the clock runs
MaxTime == 2

\* Optional[...] : None, or a value
None == <<>>
Some(x) == <<x>>

\* Python str values are sequences of one-character strings
Emails == { <<"a", "@", "x">>, <<"b">> }
Names == { <<>>, <<"A", "n">> }
Genders == { <<"F">> }
\* credential strings (phone HCE ids, card UIDs, scanned ids)
TokenStrings == << "GEM_USER_001", "04:A2:55", "UNKNOWN" >>
Tokens == { TokenStrings[i] : i \in 1 .. NumTokens }

OptNames == {None} \cup {Some(n) : n \in Names}
OptGenders == {None} \cup {Some(g) : g \in Genders}
OptTokens == {None} \cup {Some(t) : t \in Tokens}
\* ids a request may name: every id a row can have (email is unique, so the
\* table holds at most one row per email), and one beyond
UserIds == 1 .. Cardinality(Emails) + 1
Workers == {"w1", "w2"}

\* session.exec(...).first() / session.get(...) finding no row
NoRow == 0

\* the rooms the seeding script adds to an empty database
SeedRooms == << "Ancient Egypt Gallery", "Royal Mummies Hall", "Grand Entrance" >>

\* timedelta(hours=1), in hours
OneHour == 1
\* .limit(3)
TopN == 3
\* room ids a request may name: two seeded rooms, and one beyond the table
RoomIds == {1, 2, Len(SeedRooms) + 1}
\* the rooms photos are uploaded for: one of those seeded rooms, and the one
\* beyond the table
UploadRoomIds == RoomIds \ {2}
\* random.randint(10, 100): its two ends
Scores == {10, 100}
\* the email of the visitor who takes part in the competition
BoardEmails == { e \in Emails : Len(e) > 1 }

----------------------------------------------------------------------------
(* Python helpers *)

\* truthiness of an Optional[str]: None and "" are falsy
Truthy(o) == o /= None /\ o[1] /= <<>>

RECURSIVE Before(_, _)
\* s.split(c)[0]: the part of s before the first c (all of s if c is absent)
Before(s, c) ==
    IF s = <<>> \/ Head(s) = c THEN <<>>
    ELSE <<Head(s)>> \o Before(Tail(s), c)

\* user.name or user.email.split('@')[0]
DisplayName(row) ==
    IF Truthy(row.name) THEN row.name[1] ELSE Before(row.email, "@")

----------------------------------------------------------------------------
(* The visitor table *)

\* a Visitor object: joined_at takes its default, utcnow() at construction
Visitor(email, name, gender, virtual, physical) ==
    [ email |-> email, name |-> name, gender |-> gender, joined_at |-> now,
      virtual_nfc_id |-> virtual, physical_card_id |-> physical ]

\* the table without UNIQUE on email
UniqueButEmail(vs) ==
    \A i, j \in DOMAIN vs :
        i /= j =>
            /\ vs[i].virtual_nfc_id = None \/ vs[i].virtual_nfc_id /= vs[j].virtual_nfc_id
            /\ vs[i].physical_card_id = None \/ vs[i].physical_card_id /= vs[j].physical_card_id

\* the table without UNIQUE on virtual_nfc_id
UniqueButVirtual(vs) ==
    \A i, j \in DOMAIN vs :
        i /= j =>
            /\ vs[i].email /= vs[j].email
            /\ vs[i].physical_card_id = None \/ vs[i].physical_card_id /= vs[j].physical_card_id

\* the table without UNIQUE on physical_card_id
UniqueButPhysical(vs) ==
    \A i, j \in DOMAIN vs :
        i /= j =>
            /\ vs[i].email /= vs[j].email
            /\ vs[i].virtual_nfc_id = None \/ vs[i].virtual_nfc_id /= vs[j].virtual_nfc_id

\* the UNIQUE constraints of the table: email, and each credential column
\* (SQL NULLs never collide)
Unique(vs) ==
    \A i, j \in DOMAIN vs :
        i /= j =>
            /\ vs[i].email /= vs[j].email
            /\ vs[i].virtual_nfc_id = None \/ vs[i].virtual_nfc_id /= vs[j].virtual_nfc_id
            /\ vs[i].physical_card_id = None \/ vs[i].physical_card_id /= vs[j].physical_card_id

\* select(Visitor).where(Visitor.<col> == value): the ids of the matching rows
Where(vs, col, value) == { i \in DOMAIN vs : vs[i][col] = value }

\* .first(): one of the rows of the result, or no row
First(ids) == IF ids = {} THEN {NoRow} ELSE ids

\* the id the table assigns to an inserted row that names none
NextId(vs) ==
    IF DOMAIN vs = {} THEN 1
    ELSE 1 + CHOOSE m \in DOMAIN vs : \A i \in DOMAIN vs : i <= m

\* an insert that no constraint ever rejects
InsertUnchecked(vs, row) ==
    LET new == NextId(vs)
    IN  [ ok |-> TRUE, id |-> new,
          table |-> [ i \in DOMAIN vs \cup {new} |-> IF i = new THEN row ELSE vs[i] ] ]

\* session.add(row); session.commit() of a new row: the table afterwards and
\* the row's id, or the IntegrityError the constraints raise (table unchanged)
Insert(vs, row) ==
    LET new == NextId(vs)
        vs2 == [ i \in DOMAIN vs \cup {new} |-> IF i = new THEN row ELSE vs[i] ]
    IN  IF Unique(vs2)
        THEN [ ok |-> TRUE, table |-> vs2, id |-> new ]
        ELSE [ ok |-> FALSE, table |-> vs, id |-> NoRow ]

\* an update that no constraint ever rejects
UpdateUnchecked(vs, id, assigned) ==
    [ ok |-> TRUE, id |-> id,
      table |-> [ vs EXCEPT ![id] =
                    [ c \in DOMAIN vs[id] |->
                        IF c \in DOMAIN assigned THEN assigned[c] ELSE vs[id][c] ] ] ]

\* session.add(user); session.commit() of a loaded row: the UPDATE sets the
\* assigned columns of the row with that id, or the constraints raise
\* IntegrityError (table unchanged)
Update(vs, id, assigned) ==
    LET row == [ c \in DOMAIN vs[id] |->
                    IF c \in DOMAIN assigned THEN assigned[c] ELSE vs[id][c] ]
        vs2 == [ vs EXCEPT ![id] = row ]
    IN  IF Unique(vs2)
        THEN [ ok |-> TRUE, table |-> vs2, id |-> id ]
        ELSE [ ok |-> FALSE, table |-> vs, id |-> NoRow ]

----------------------------------------------------------------------------
(* Calls.  last records the most recent call that returned: what it asked   *)
(* (the request fields the handler had read by then) and what it answered.  *)
(* id is the visitor the answer names: the user returned or echoed, or the  *)
(* owner named in a 400 detail.                                             *)

Request(op, email, user_id, token) ==
    [ op |-> op, email |-> email, user_id |-> user_id, token |-> token ]

Response(request, status, id, new, name) ==
    [ op |-> request.op, email |-> request.email, user_id |-> request.user_id,
      token |-> request.token, status |-> status, id |-> id,
      is_new_user |-> new, user_name |-> name ]

NoResponse == Response(Request("none", None, NoRow, None), "none", NoRow, FALSE, None)

Idle == [ op |-> "idle", pc |-> "idle" ]

----------------------------------------------------------------------------
(* The handlers, phase by phase.  Each phase is the code between two       *)
(* database round trips; it constrains visitors' and last' and leaves req'  *)
(* to the specification that schedules it.                                  *)

\* create_visitor: an existing row with the email is returned as it is
CvFound(email, existing) ==
    /\ visitors' = visitors
    /\ last' = Response(Request("create_visitor", Some(email), NoRow, None),
                        "200", existing, FALSE, None)

\* create_visitor: session.add(visitor); commit; refresh; return visitor
CvCommit(row) ==
    LET r == Insert(visitors, row)
    IN  /\ visitors' = r.table
        /\ last' = Response(Request("create_visitor", Some(row.email), NoRow, None),
                            IF r.ok THEN "200" ELSE "500", r.id, FALSE, None)

\* an existing-user branch that writes name and gender whatever was sent
LrAssignedWhateverSent(name, gender, virtual) ==
    [ virtual_nfc_id |-> Some(virtual), name |-> name, gender |-> gender ]

\* an existing-user branch that also stamps joined_at
LrAssignedStampingJoin(name, gender, virtual) ==
    [ c \in {"virtual_nfc_id", "joined_at"}
            \cup (IF Truthy(name) THEN {"name"} ELSE {})
            \cup (IF Truthy(gender) THEN {"gender"} ELSE {}) |->
        CASE c = "virtual_nfc_id" -> Some(virtual)
          [] c = "joined_at" -> now
          [] c = "name" -> name
          [] c = "gender" -> gender ]

\* an existing-user branch that keeps the stored virtual_nfc_id
LrAssignedKeepingVirtual(name, gender, virtual) ==
    [ c \in (IF Truthy(name) THEN {"name"} ELSE {})
            \cup (IF Truthy(gender) THEN {"gender"} ELSE {}) |->
        IF c = "name" THEN name ELSE gender ]

\* login_or_register, existing user: the attributes the handler assigns
LrAssigned(name, gender, virtual) ==
    [ c \in {"virtual_nfc_id"}
            \cup (IF Truthy(name) THEN {"name"} ELSE {})
            \cup (IF Truthy(gender) THEN {"gender"} ELSE {}) |->
        CASE c = "virtual_nfc_id" -> Some(virtual)
          [] c = "name" -> name
          [] c = "gender" -> gender ]

\* login_or_register, existing user: update, commit, refresh, is_new_user=False
LrUpdate(email, existing, name, gender, virtual) ==
    LET r == Update(visitors, existing, LrAssigned(name, gender, virtual))
    IN  /\ visitors' = r.table
        /\ last' = Response(Request("login_or_register", Some(email), NoRow, Some(virtual)),
                            IF r.ok THEN "200" ELSE "500", r.id, FALSE, None)

\* login_or_register, no such user: insert, commit, refresh, is_new_user=True
LrInsert(email, name, gender, virtual) ==
    LET r == Insert(visitors, Visitor(email, name, gender, Some(virtual), None))
    IN  /\ visitors' = r.table
        /\ last' = Response(Request("login_or_register", Some(email), NoRow, Some(virtual)),
                            IF r.ok THEN "200" ELSE "500", r.id, r.ok, None)

\* register_virtual_nfc: 404 when session.get finds no user
RvNotFound(user_id) ==
    /\ visitors' = visitors
    /\ last' = Response(Request("register_virtual_nfc", None, user_id, None),
                        "404", NoRow, FALSE, None)

\* register_virtual_nfc: 400 naming the user the id is registered to
RvConflict(user_id, value, existing) ==
    /\ visitors' = visitors
    /\ last' = Response(Request("register_virtual_nfc", None, user_id, Some(value)),
                        "400", existing, FALSE, None)

\* a register_virtual_nfc that also drops the visitor's linked card
RvCommitDroppingCard(user_id, value) ==
    LET r == Update(visitors, user_id,
                    [virtual_nfc_id |-> Some(value), physical_card_id |-> None])
    IN  /\ visitors' = r.table
        /\ last' = Response(Request("register_virtual_nfc", None, user_id, Some(value)),
                            IF r.ok THEN "200" ELSE "500", r.id, FALSE, None)

\* register_virtual_nfc: set the attribute, commit, refresh, echo the request
RvCommit(user_id, value) ==
    LET r == Update(visitors, user_id, [virtual_nfc_id |-> Some(value)])
    IN  /\ visitors' = r.table
        /\ last' = Response(Request("register_virtual_nfc", None, user_id, Some(value)),
                            IF r.ok THEN "200" ELSE "500", r.id, FALSE, None)

\* link_physical_card: 404 when session.get finds no user
LkNotFound(user_id) ==
    /\ visitors' = visitors
    /\ last' = Response(Request("link_physical_card", None, user_id, None),
                        "404", NoRow, FALSE, None)

\* link_physical_card: 400 naming the user the card is linked to
LkConflict(user_id, card_uid, existing) ==
    /\ visitors' = visitors
    /\ last' = Response(Request("link_physical_card", None, user_id, Some(card_uid)),
                        "400", existing, FALSE, None)

\* link_physical_card: set the attribute, commit, refresh, echo the request
LkCommit(user_id, card_uid) ==
    LET r == Update(visitors, user_id, [physical_card_id |-> Some(card_uid)])
    IN  /\ visitors' = r.table
        /\ last' = Response(Request("link_physical_card", None, user_id, Some(card_uid)),
                            IF r.ok THEN "200" ELSE "500", r.id, FALSE, None)

\* a gate query that looks at virtual_nfc_id alone
GateMatchesVirtualOnly(vs, scanned_id) ==
    Where(vs, "virtual_nfc_id", Some(scanned_id))

\* the rows the gate query selects: virtual_nfc_id or physical_card_id matches
GateMatches(vs, scanned_id) ==
    Where(vs, "virtual_nfc_id", Some(scanned_id))
        \cup Where(vs, "physical_card_id", Some(scanned_id))

\* scan_at_gate: ACCESS_GRANTED with the display name of the row .first()
\* returned (id records that row; the body carries its name only)
GateGranted(scanned_id, user) ==
    /\ visitors' = visitors
    /\ last' = Response(Request("scan_at_gate", None, NoRow, Some(scanned_id)),
                        "ACCESS_GRANTED", user, FALSE, Some(DisplayName(visitors[user])))

\* scan_at_gate: ACCESS_DENIED when the query returned no row
GateDenied(scanned_id) ==
    /\ visitors' = visitors
    /\ last' = Response(Request("scan_at_gate", None, NoRow, Some(scanned_id)),
                        "ACCESS_DENIED", NoRow, FALSE, None)

----------------------------------------------------------------------------
(* The photo competition *)

\* a PhotoSubmission object: created_at and is_hourly_winner take their defaults
PhotoSubmission(visitor_id, room_id, score) ==
    [ visitor_id |-> visitor_id, room_id |-> room_id, created_at |-> now,
      score |-> score, is_hourly_winner |-> FALSE ]

\* what a competition call asked and answered: id is the photo stored, at the
\* time the handler read the clock, results the ids of the rows returned
PhotoResponse(op, visitor_id, room_id, status, id, results) ==
    Response(Request(op, None, visitor_id, None), status, id, FALSE, None)
        @@ [ room_id |-> room_id, at |-> now, results |-> results ]

\* upload_photo: 404 when the visitor or the room is not found
UpNotFound(visitor_id, room_id) ==
    /\ visitors' = visitors
    /\ photos' = photos
    /\ last' = PhotoResponse("upload_photo", visitor_id, room_id, "404", NoRow, <<>>)

\* upload_photo: session.add(photo); commit; refresh; return
UpCommit(visitor_id, room_id, score) ==
    LET new == NextId(photos)
    IN  /\ visitors' = visitors
        /\ photos' = [ i \in DOMAIN photos \cup {new} |->
                        IF i = new THEN PhotoSubmission(visitor_id, room_id, score)
                        ELSE photos[i] ]
        /\ last' = PhotoResponse("upload_photo", visitor_id, room_id, "200", new, <<>>)

\* an upload that does not look the room up
upload_photo_for_any_room(visitor_id, room_id, score) ==
    IF visitor_id \notin DOMAIN visitors
    THEN UpNotFound(visitor_id, room_id)
    ELSE UpCommit(visitor_id, room_id, score)

upload_photo(visitor_id, room_id, score) ==
    IF visitor_id \notin DOMAIN visitors \/ room_id \notin DOMAIN rooms
    THEN UpNotFound(visitor_id, room_id)
    ELSE UpCommit(visitor_id, room_id, score)

\* a query that leaves the room out
QualifyingInAnyRoom(ps, room_id, one_hour_ago) ==
    { p \in DOMAIN ps : ps[p].created_at >= one_hour_ago }

\* a query that drops the photo uploaded exactly one hour ago
QualifyingStrictlyAfter(ps, room_id, one_hour_ago) ==
    { p \in DOMAIN ps : ps[p].room_id = room_id /\ ps[p].created_at > one_hour_ago }

\* a query that leaves the time out
QualifyingAtAnyTime(ps, room_id, one_hour_ago) ==
    { p \in DOMAIN ps : ps[p].room_id = room_id }

\* .where(room_id == room_id).where(created_at >= one_hour_ago)
Qualifying(ps, room_id, one_hour_ago) ==
    { p \in DOMAIN ps : ps[p].room_id = room_id /\ ps[p].created_at >= one_hour_ago }

RECURSIVE OrderByScoreDesc(_, _)
\* .order_by(desc(score)): every order of the rows that puts no lower score
\* first (SQL leaves the order of equal scores open)
OrderByScoreDesc(ps, ids) ==
    IF ids = {} THEN { <<>> }
    ELSE UNION { { <<p>> \o s : s \in OrderByScoreDesc(ps, ids \ {p}) } :
                    p \in { q \in ids : \A r \in ids : ps[q].score >= ps[r].score } }

\* .limit(n)
Limit(s, n) == SubSeq(s, 1, IF Len(s) < n THEN Len(s) ELSE n)

\* a dashboard that marks the photo it ranks first as the hourly winner
get_room_dashboard_marking_winner(room_id) ==
    LET one_hour_ago == now - OneHour
    IN  \E s \in OrderByScoreDesc(photos, Qualifying(photos, room_id, one_hour_ago)) :
            /\ visitors' = visitors
            /\ photos' = [ p \in DOMAIN photos |->
                            IF s /= <<>> /\ p = Head(s)
                            THEN [ photos[p] EXCEPT !.is_hourly_winner = TRUE ]
                            ELSE photos[p] ]
            /\ last' = PhotoResponse("get_room_dashboard", NoRow, room_id, "200",
                                     NoRow, Limit(s, TopN))

get_room_dashboard(room_id) ==
    LET one_hour_ago == now - OneHour
    IN  \E s \in OrderByScoreDesc(photos, Qualifying(photos, room_id, one_hour_ago)) :
            /\ visitors' = visitors
            /\ photos' = photos
            /\ last' = PhotoResponse("get_room_dashboard", NoRow, room_id, "200",
                                     NoRow, Limit(s, TopN))

----------------------------------------------------------------------------
(* Spec: one request at a time, each handler one step *)

\* Faulty variants of the handlers, which the properties below must tell from
\* the handlers themselves.

\* create_visitor without the lookup by email
create_visitor_without_lookup(email) ==
    \E name \in OptNames, gender \in OptGenders,
       virtual \in OptTokens, physical \in OptTokens :
        CvCommit(Visitor(email, name, gender, virtual, physical))

\* register_virtual_nfc whose check does not let the user's own id through
register_virtual_nfc_refusing_own(user_id, value) ==
    IF user_id \notin DOMAIN visitors
    THEN RvNotFound(user_id)
    ELSE \E existing \in First(Where(visitors, "virtual_nfc_id", Some(value))) :
            IF existing /= NoRow
            THEN RvConflict(user_id, value, existing)
            ELSE RvCommit(user_id, value)

\* link_physical_card without the check for another owner
link_physical_card_unchecked(user_id, card_uid) ==
    IF user_id \notin DOMAIN visitors
    THEN LkNotFound(user_id)
    ELSE LkCommit(user_id, card_uid)

\* register_virtual_nfc checking the id's owner before the user exists
register_virtual_nfc_owner_first(user_id, value) ==
    \E existing \in First(Where(visitors, "virtual_nfc_id", Some(value))) :
        IF existing /= NoRow /\ existing /= user_id
        THEN RvConflict(user_id, value, existing)
        ELSE IF user_id \notin DOMAIN visitors
             THEN RvNotFound(user_id)
             ELSE RvCommit(user_id, value)

\* the body of POST /visitors/ is a Visitor: past its email, the fields are read
\* by the insert alone; the client may set the credential columns too, and
\* leaves id and joined_at to the table's defaults
create_visitor(email) ==
    \E existing \in First(Where(visitors, "email", email)) :
        IF existing /= NoRow
        THEN CvFound(email, existing)
        ELSE \E name \in OptNames, gender \in OptGenders,
                virtual \in OptTokens, physical \in OptTokens :
                CvCommit(Visitor(email, name, gender, virtual, physical))

login_or_register(email, name, gender, virtual) ==
    \E existing \in First(Where(visitors, "email", email)) :
        IF existing /= NoRow
        THEN LrUpdate(email, existing, name, gender, virtual)
        ELSE LrInsert(email, name, gender, virtual)

register_virtual_nfc(user_id, value) ==
    IF user_id \notin DOMAIN visitors
    THEN RvNotFound(user_id)
    ELSE \E existing \in First(Where(visitors, "virtual_nfc_id", Some(value))) :
            IF existing /= NoRow /\ existing /= user_id
            THEN RvConflict(user_id, value, existing)
            ELSE RvCommit(user_id, value)

link_physical_card(user_id, card_uid) ==
    IF user_id \notin DOMAIN visitors
    THEN LkNotFound(user_id)
    ELSE \E existing \in First(Where(visitors, "physical_card_id", Some(card_uid))) :
            IF existing /= NoRow /\ existing /= user_id
            THEN LkConflict(user_id, card_uid, existing)
            ELSE LkCommit(user_id, card_uid)

scan_at_gate(scanned_id) ==
    \E user \in First(GateMatches(visitors, scanned_id)) :
        IF user /= NoRow
        THEN GateGranted(scanned_id, user)
        ELSE GateDenied(scanned_id)

CreateVisitor ==
    \E email \in Emails : create_visitor(email)

LoginOrRegister ==
    \E email \in Emails, name \in OptNames, gender \in OptGenders, virtual \in Tokens :
        login_or_register(email, name, gender, virtual)

RegisterVirtualNfc ==
    \E user_id \in UserIds, value \in Tokens : register_virtual_nfc(user_id, value)

LinkPhysicalCard ==
    \E user_id \in UserIds, card_uid \in Tokens : link_physical_card(user_id, card_uid)

ScanAtGate ==
    \E scanned_id \in Tokens : scan_at_gate(scanned_id)

\* the tables after create_db_and_tables and the seeding of the rooms
Init ==
    /\ visitors = << >>
    /\ req = [ w \in Workers |-> Idle ]
    /\ last = NoResponse
    /\ photos = << >>
    /\ rooms = SeedRooms
    /\ now = 0

Next ==
    /\ \/ CreateVisitor
       \/ LoginOrRegister
       \/ RegisterVirtualNfc
       \/ LinkPhysicalCard
       \/ ScanAtGate
    /\ UNCHANGED <<req, photos, rooms, now>>

Spec == Init /\ [][Next]_vars

----------------------------------------------------------------------------
(* SpecConc: FastAPI runs the (sync) handlers on pool threads, each with   *)
(* its own Session, so two requests interleave at their database round     *)
(* trips.  A SELECT reads the committed table; commit() writes in one       *)
(* transaction.  A request's fields are drawn where the handler first reads *)
(* them.  The descriptive columns take no part in any constraint and are    *)
(* left unset here.                                                         *)

Start(w, r) == req' = [ req EXCEPT ![w] = r ]
Finish(w) == req' = [ req EXCEPT ![w] = Idle ]

\* create_visitor up to its SELECT by email (lines 125-128)
CvSelect(w) ==
    /\ req[w] = Idle
    /\ \E email \in Emails :
        \E existing \in First(Where(visitors, "email", email)) :
            IF existing /= NoRow
            THEN CvFound(email, existing) /\ UNCHANGED req
            ELSE /\ Start(w, [ op |-> "create_visitor", pc |-> "commit", email |-> email ])
                 /\ UNCHANGED <<visitors, last>>

\* create_visitor from session.add to the return (lines 130-133)
CvFlush(w) ==
    /\ req[w].op = "create_visitor"
    /\ \E virtual \in OptTokens, physical \in OptTokens :
        CvCommit(Visitor(req[w].email, None, None, virtual, physical))
    /\ Finish(w)

\* login_or_register up to its SELECT by email (lines 277-279)
LrSelect(w) ==
    /\ req[w] = Idle
    /\ \E email \in Emails :
        \E existing \in First(Where(visitors, "email", email)) :
            Start(w, [ op |-> "login_or_register", pc |-> "commit", email |-> email,
                       existing |-> existing ])
    /\ UNCHANGED <<visitors, last>>

\* login_or_register from the branch on existing_user to the return (lines 281-317)
LrFlush(w) ==
    /\ req[w].op = "login_or_register"
    /\ \E virtual \in Tokens :
        IF req[w].existing /= NoRow
        THEN LrUpdate(req[w].email, req[w].existing, None, None, virtual)
        ELSE LrInsert(req[w].email, None, None, virtual)
    /\ Finish(w)

\* register_virtual_nfc: session.get(Visitor, user_id) (lines 331-333)
RvGet(w) ==
    /\ req[w] = Idle
    /\ \E user_id \in UserIds :
        IF user_id \notin DOMAIN visitors
        THEN RvNotFound(user_id) /\ UNCHANGED req
        ELSE /\ Start(w, [ op |-> "register_virtual_nfc", pc |-> "select",
                           user_id |-> user_id ])
             /\ UNCHANGED <<visitors, last>>

\* register_virtual_nfc: the SELECT by virtual_nfc_id and the check (lines 336-344)
RvSelect(w) ==
    /\ req[w].op = "register_virtual_nfc" /\ req[w].pc = "select"
    /\ \E value \in Tokens :
        \E existing \in First(Where(visitors, "virtual_nfc_id", Some(value))) :
            IF existing /= NoRow /\ existing /= req[w].user_id
            THEN RvConflict(req[w].user_id, value, existing) /\ Finish(w)
            ELSE /\ Start(w, [ op |-> "register_virtual_nfc", pc |-> "commit",
                               user_id |-> req[w].user_id, value |-> value ])
                 /\ UNCHANGED <<visitors, last>>

\* register_virtual_nfc: the assignment, commit and return (lines 347-357)
RvFlush(w) ==
    /\ req[w].op = "register_virtual_nfc" /\ req[w].pc = "commit"
    /\ RvCommit(req[w].user_id, req[w].value)
    /\ Finish(w)

\* link_physical_card: session.get(Visitor, user_id) (lines 372-374)
LkGet(w) ==
    /\ req[w] = Idle
    /\ \E user_id \in UserIds :
        IF user_id \notin DOMAIN visitors
        THEN LkNotFound(user_id) /\ UNCHANGED req
        ELSE /\ Start(w, [ op |-> "link_physical_card", pc |-> "select",
                           user_id |-> user_id ])
             /\ UNCHANGED <<visitors, last>>

\* link_physical_card: the SELECT by physical_card_id and the check (lines 377-385)
LkSelect(w) ==
    /\ req[w].op = "link_physical_card" /\ req[w].pc = "select"
    /\ \E card_uid \in Tokens :
        \E existing \in First(Where(visitors, "physical_card_id", Some(card_uid))) :
            IF existing /= NoRow /\ existing /= req[w].user_id
            THEN LkConflict(req[w].user_id, card_uid, existing) /\ Finish(w)
            ELSE /\ Start(w, [ op |-> "link_physical_card", pc |-> "commit",
                               user_id |-> req[w].user_id, value |-> card_uid ])
                 /\ UNCHANGED <<visitors, last>>

\* link_physical_card: the assignment, commit and return (lines 388-398)
LkFlush(w) ==
    /\ req[w].op = "link_physical_card" /\ req[w].pc = "commit"
    /\ LkCommit(req[w].user_id, req[w].value)
    /\ Finish(w)

NextConc ==
    /\ \E w \in Workers :
            \/ CvSelect(w)
            \/ CvFlush(w)
            \/ LrSelect(w)
            \/ LrFlush(w)
            \/ RvGet(w)
            \/ RvSelect(w)
            \/ RvFlush(w)
            \/ LkGet(w)
            \/ LkSelect(w)
            \/ LkFlush(w)
    /\ UNCHANGED <<photos, rooms, now>>

SpecConc == Init /\ [][NextConc]_vars

----------------------------------------------------------------------------
(* SpecBoard: the competition of one visitor's photos, with the gate, while *)
(* the clock advances.  The visitor registers through login_or_register.    *)

BoardLogin ==
    \E email \in BoardEmails, virtual \in Tokens :
        login_or_register(email, None, None, virtual)

UploadPhoto ==
    /\ Cardinality(DOMAIN photos) < MaxPhotos
    /\ \E visitor_id \in UserIds, room_id \in UploadRoomIds, score \in Scores :
        upload_photo(visitor_id, room_id, score)

GetRoomDashboard ==
    \E room_id \in RoomIds : get_room_dashboard(room_id)

\* an hour passes
Tick ==
    /\ now < MaxTime
    /\ now' = now + 1

NextBoard ==
    \/ /\ BoardLogin \/ ScanAtGate
       /\ UNCHANGED <<req, photos, rooms, now>>
    \/ /\ UploadPhoto \/ GetRoomDashboard
       /\ UNCHANGED <<req, rooms, now>>
    \/ /\ Tick
       /\ UNCHANGED <<visitors, req, last, photos, rooms>>

SpecBoard == Init /\ [][NextBoard]_vars

----------------------------------------------------------------------------
(* SpecLife: the life of one visitor's row, one request at a time, while   *)
(* the clock advances: the handlers that create a visitor or write its row. *)

LifeCreate ==
    \E email \in BoardEmails : create_visitor(email)

LifeLogin ==
    \E email \in BoardEmails, name \in OptNames, gender \in OptGenders,
       virtual \in Tokens :
        login_or_register(email, name, gender, virtual)

NextLife ==
    \/ /\ \/ LifeCreate
          \/ LifeLogin
          \/ RegisterVirtualNfc
          \/ LinkPhysicalCard
       /\ UNCHANGED <<req, photos, rooms, now>>
    \/ /\ Tick
       /\ UNCHANGED <<visitors, req, last, photos, rooms>>

SpecLife == Init /\ [][NextLife]_vars

----------------------------------------------------------------------------
(* Claims *)

Rows == DOMAIN visitors
\* the visitors holding a credential (an Optional value) in a column
VirtualOwners(token) == { i \in Rows : visitors[i].virtual_nfc_id = token }
PhysicalOwners(token) == { i \in Rows : visitors[i].physical_card_id = token }
Credentials == { Some(t) : t \in Tokens }

\* C1: under any interleaving of create_visitor, login_or_register,
\* register_virtual_nfc and link_physical_card, no two distinct visitors hold
\* the same non-null virtual_nfc_id.
C1_VirtualUnique ==
    \A i, j \in Rows :
        (i /= j /\ visitors[i].virtual_nfc_id /= None)
            => visitors[i].virtual_nfc_id /= visitors[j].virtual_nfc_id

\* two visitors hold virtual ids, and a login_or_register asking for the id
\* the other visitor holds was just turned down by the table
C1_Witness ==
    /\ Cardinality(Rows) = 2
    /\ \A i \in Rows : visitors[i].virtual_nfc_id /= None
    /\ last.op = "login_or_register" /\ last.status = "500"
    /\ \E i, j \in Rows :
        i /= j /\ Some(visitors[i].email) = last.email /\ j \in VirtualOwners(last.token)

\* C2: under any interleaving of the registry operations, no two distinct
\* visitors hold the same non-null physical_card_id.
C2_PhysicalUnique ==
    \A i, j \in Rows :
        (i /= j /\ visitors[i].physical_card_id /= None)
            => visitors[i].physical_card_id /= visitors[j].physical_card_id

\* two visitors hold cards, and a link_physical_card that passed its own
\* check was turned down by the table at commit: another visitor holds the card
C2_Witness ==
    /\ Cardinality(Rows) = 2
    /\ \A i \in Rows : visitors[i].physical_card_id /= None
    /\ last.op = "link_physical_card" /\ last.status = "500"
    /\ PhysicalOwners(last.token) \ {last.user_id} /= {}

\* C3 (as claimed): when a register_virtual_nfc (or link_physical_card) call
\* commits right after another call of the same kind has succeeded in binding
\* the same value to a different visitor -- both calls read before either
\* wrote -- the later call fails with the 400 conflict error.
C3_LoserGetsConflict ==
    [][ \A w \in Workers :
            ( /\ req[w].op \in {"register_virtual_nfc", "link_physical_card"}
              /\ req[w].pc = "commit"
              /\ req'[w] = Idle
              /\ last.op = req[w].op
              /\ last.status = "200"
              /\ last.token = Some(req[w].value)
              /\ last.user_id /= req[w].user_id )
            => last'.status = "400" ]_vars

\* the race: a register_virtual_nfc that passed its own check failed at commit
\* on the table's UNIQUE constraint, the id now being another visitor's
C3_Witness ==
    /\ last.op = "register_virtual_nfc" /\ last.status = "500"
    /\ last.user_id \in Rows
    /\ VirtualOwners(last.token) \ {last.user_id} /= {}

\* C4: the gate answers ACCESS_GRANTED exactly when some visitor's
\* virtual_nfc_id or physical_card_id equals the scanned id, else ACCESS_DENIED.
C4_GrantedIffBound ==
    last.op = "scan_at_gate" =>
        /\ last.status \in {"ACCESS_GRANTED", "ACCESS_DENIED"}
        /\ last.status = "ACCESS_GRANTED" <=>
                \E i \in Rows : \/ visitors[i].virtual_nfc_id = last.token
                                \/ visitors[i].physical_card_id = last.token

\* a scan granted on a card UID that is nobody's virtual id
C4_Witness ==
    /\ last.op = "scan_at_gate" /\ last.status = "ACCESS_GRANTED"
    /\ VirtualOwners(last.token) = {}
    /\ PhysicalOwners(last.token) /= {}

\* C5 (as claimed): for every token at most one visitor matches the gate query.
C5_AtMostOneMatch ==
    \A c \in Credentials : Cardinality(VirtualOwners(c) \cup PhysicalOwners(c)) <= 1

\* C5 (amended): for every token at most one visitor matches it by
\* virtual_nfc_id and at most one by physical_card_id, so at most two visitors
\* match the gate query, and two do only across the two columns.
C5_AtMostOnePerColumn ==
    \A c \in Credentials :
        /\ Cardinality(VirtualOwners(c)) <= 1
        /\ Cardinality(PhysicalOwners(c)) <= 1
        /\ \A i, j \in VirtualOwners(c) \cup PhysicalOwners(c) :
                i /= j => \/ i \in VirtualOwners(c) /\ j \in PhysicalOwners(c)
                          \/ j \in VirtualOwners(c) /\ i \in PhysicalOwners(c)

\* the gate granted a scan of a token that is one visitor's phone id and
\* another visitor's card
C5_Witness ==
    /\ last.op = "scan_at_gate" /\ last.status = "ACCESS_GRANTED"
    /\ \E i \in VirtualOwners(last.token), j \in PhysicalOwners(last.token) : i /= j

\* C6: register_virtual_nfc / link_physical_card for an existing user, with a
\* value another visitor holds in that column, answers 400 naming that visitor
\* and changes no row.
C6_ConflictNamesOwner ==
    [][ /\ ( /\ last'.op = "register_virtual_nfc"
             /\ last'.user_id \in Rows
             /\ VirtualOwners(last'.token) \ {last'.user_id} /= {} )
            => /\ last'.status = "400"
               /\ last'.id \in VirtualOwners(last'.token) \ {last'.user_id}
               /\ visitors' = visitors
        /\ ( /\ last'.op = "link_physical_card"
             /\ last'.user_id \in Rows
             /\ PhysicalOwners(last'.token) \ {last'.user_id} /= {} )
            => /\ last'.status = "400"
               /\ last'.id \in PhysicalOwners(last'.token) \ {last'.user_id}
               /\ visitors' = visitors ]_vars

\* a card linked to visitor 1; linking it to visitor 2 was refused, naming
\* visitor 1
C6_Witness ==
    /\ last.op = "link_physical_card" /\ last.status = "400"
    /\ last.user_id = 2 /\ last.id = 1
    /\ visitors[1].physical_card_id = last.token

\* C7: create_visitor with an email a visitor already has returns that
\* visitor's id, adds no row and changes no row.
C7_CreateIdempotent ==
    [][ ( /\ last'.op = "create_visitor"
          /\ \E i \in Rows : Some(visitors[i].email) = last'.email )
        => /\ last'.status = "200"
           /\ last'.id \in Rows
           /\ Some(visitors[last'.id].email) = last'.email
           /\ visitors' = visitors ]_vars

\* create_visitor returned visitor 1 while a later row exists: the row was
\* found, not inserted (an insert returns the highest id)
C7_Witness ==
    /\ last.op = "create_visitor" /\ last.status = "200" /\ last.id = 1
    /\ Some(visitors[1].email) = last.email
    /\ 2 \in Rows

\* what C8 says of a login_or_register step
C8_Post ==
    IF \E i \in Rows : Some(visitors[i].email) = last'.email
    THEN /\ last'.status = "200"
         /\ ~last'.is_new_user
         /\ last'.id \in Rows
         /\ Some(visitors[last'.id].email) = last'.email
         /\ DOMAIN visitors' = Rows
         /\ visitors'[last'.id].virtual_nfc_id = last'.token
    ELSE /\ last'.status = "200"
         /\ last'.is_new_user
         /\ last'.id \notin Rows
         /\ DOMAIN visitors' = Rows \cup {last'.id}
         /\ Some(visitors'[last'.id].email) = last'.email
         /\ visitors'[last'.id].virtual_nfc_id = last'.token

C9_RelinkIdempotent ==
    [][ /\ ( /\ last'.op = "register_virtual_nfc"
             /\ last'.user_id \in VirtualOwners(last'.token) )
            => last'.status = "200" /\ last'.id = last'.user_id /\ visitors' = visitors
        /\ ( /\ last'.op = "link_physical_card"
             /\ last'.user_id \in PhysicalOwners(last'.token) )
            => last'.status = "200" /\ last'.id = last'.user_id /\ visitors' = visitors ]_vars

\* a visitor holds the card its successful link_physical_card just named,
\* while every token is some visitor's card
C9_Witness ==
    /\ last.op = "link_physical_card" /\ last.status = "200"
    /\ last.user_id \in PhysicalOwners(last.token)
    /\ \A c \in Credentials : PhysicalOwners(c) /= {}

\* C10: register_virtual_nfc / link_physical_card for a user_id with no row
\* answers 404, whoever holds the value, and changes no row.
C10_NotFoundFirst ==
    [][ ( /\ last'.op \in {"register_virtual_nfc", "link_physical_card"}
          /\ last'.user_id \notin Rows )
        => last'.status = "404" /\ visitors' = visitors ]_vars

\* a 404 for an unknown user while every token is some visitor's virtual id
\* (the uniqueness check would have found an owner)
C10_Witness ==
    /\ last.op = "register_virtual_nfc" /\ last.status = "404"
    /\ last.user_id \notin Rows
    /\ \A c \in Credentials : VirtualOwners(c) /= {}

----------------------------------------------------------------------------
(* Claims on the photo competition *)

\* last is the answer of a dashboard call
IsDashboard == last.op = "get_room_dashboard"
\* the photos it returned
Returned == { last.results[i] : i \in 1 .. Len(last.results) }
\* the photos of the room it asked for that were in the window when it asked
InWindow ==
    { p \in DOMAIN photos : /\ photos[p].room_id = last.room_id
                            /\ photos[p].created_at >= last.at - OneHour }

\* C11: the dashboard returns at most three entries, each of the requested
\* room and created no earlier than one hour before the call, in
\* non-increasing score order.
C11_TopRankedBounded ==
    IsDashboard =>
        /\ Len(last.results) <= TopN
        /\ \A p \in Returned :
            /\ p \in DOMAIN photos
            /\ photos[p].room_id = last.room_id
            /\ photos[p].created_at >= last.at - OneHour
        /\ \A i, j \in 1 .. Len(last.results) :
            i < j => photos[last.results[i]].score >= photos[last.results[j]].score

\* a full dashboard with two different scores, while an older photo of the
\* room is out of the window
C11_Witness ==
    /\ IsDashboard
    /\ Len(last.results) = TopN
    /\ \E p, q \in Returned : photos[p].score > photos[q].score
    /\ \E p \in DOMAIN photos :
        photos[p].room_id = last.room_id /\ photos[p].created_at < last.at - OneHour

C18_RollingWindow ==
    [][ /\ now' >= now
        /\ (now' = now /\ last'.op = "get_room_dashboard") =>
            /\ last'.at = now'
            /\ \A i \in 1 .. Len(last'.results) :
                    photos[last'.results[i]].created_at >= now' - OneHour
            /\ (last.op = "get_room_dashboard" /\ last.room_id = last'.room_id) =>
                    \A p \in Returned :
                        photos[p].created_at < now' - OneHour
                            => \A i \in 1 .. Len(last'.results) : last'.results[i] /= p ]_vars

\* the best photo of the room is left out of a dashboard that is not empty:
\* it is more than an hour old at the time of the call
C18_Witness ==
    /\ IsDashboard
    /\ Returned /= {}
    /\ \E p \in DOMAIN photos \ Returned :
        /\ photos[p].room_id = last.room_id
        /\ photos[p].created_at < last.at - OneHour
        /\ \A q \in Returned : photos[p].score > photos[q].score

\* C19: scan_at_gate and get_room_dashboard are read-only: whatever they
\* answer, the visitor, room and photo tables are the same after as before.
C19_ReadOnly ==
    [][ (now' = now /\ last'.op \in {"scan_at_gate", "get_room_dashboard"})
            => visitors' = visitors /\ rooms' = rooms /\ photos' = photos ]_vars

\* the gate granted a scan while the tables hold the visitor, the rooms and
\* photos
C19_Witness ==
    /\ last.op = "scan_at_gate" /\ last.status = "ACCESS_GRANTED"
    /\ last.id \in Rows
    /\ DOMAIN photos /= {}
    /\ DOMAIN rooms /= {}

----------------------------------------------------------------------------
(* Claims on the gate and on registration *)

\* the visitors the gate query matches for the scanned id of the last call
Matching == VirtualOwners(last.token) \cup PhysicalOwners(last.token)

\* C13 (as claimed): when more than one visitor matches the scanned id, the
\* gate fails with an integrity error and grants access to none of them.
C13_AmbiguousScanRejected ==
    (last.op = "scan_at_gate" /\ Cardinality(Matching) > 1)
        => last.status \notin {"ACCESS_GRANTED", "ACCESS_DENIED"}

\* the gate let the holder of a card in while the scanned id is also another
\* visitor's phone id
C13_Witness ==
    /\ last.op = "scan_at_gate" /\ last.status = "ACCESS_GRANTED"
    /\ last.id \in PhysicalOwners(last.token) \ VirtualOwners(last.token)
    /\ VirtualOwners(last.token) /= {}

\* the last call (in the next state) is a login_or_register of an existing
\* email asking for a virtual id that a visitor with another email holds
LoginForTakenId ==
    /\ last'.op = "login_or_register"
    /\ \E i \in Rows : Some(visitors[i].email) = last'.email
    /\ \E j \in VirtualOwners(last'.token) : Some(visitors[j].email) /= last'.email

C15_EmailUnique ==
    \A i, j \in Rows : i /= j => visitors[i].email /= visitors[j].email

\* a create_visitor that found no row with its email failed at commit: the
\* only row of the table has that email, inserted by the other request
C15_Witness ==
    /\ last.op = "create_visitor" /\ last.status = "500"
    /\ Cardinality(Rows) = 1
    /\ \A i \in Rows : Some(visitors[i].email) = last.email

\* the format policy: an "@" with a non-empty part before and after it
WellFormed(email) ==
    /\ \E i \in 1 .. Len(email) : email[i] = "@"
    /\ Before(email, "@") /= <<>>
    /\ Len(Before(email, "@")) + 1 < Len(email)

\* C16 (as claimed): create_visitor with an empty or malformed email fails
\* with a validation error and creates no visitor.
C16_MalformedEmailRejected ==
    [][ (last'.op = "create_visitor" /\ ~WellFormed(last'.email[1]))
            => last'.status /= "200" /\ DOMAIN visitors' = Rows ]_vars

\* create_visitor answered success with a new visitor whose email has no "@"
C16_Witness ==
    /\ last.op = "create_visitor" /\ last.status = "200"
    /\ last.id \in Rows
    /\ Some(visitors[last.id].email) = last.email
    /\ ~WellFormed(visitors[last.id].email)
    /\ \A i \in Rows : i <= last.id

----------------------------------------------------------------------------
(* Claims on the life of a visitor row *)

\* what C17 says of the row of an existing visitor after a login_or_register
\* that sent name and gender
C17_Replaced(i, name, gender) ==
    /\ visitors'[i].name = (IF name = None THEN visitors[i].name ELSE name)
    /\ visitors'[i].gender = (IF gender = None THEN visitors[i].gender ELSE gender)

\* what the handler does: a value is written when it is given and not empty
C17_ReplacedIfNotEmpty(i, name, gender) ==
    /\ visitors'[i].name = (IF Truthy(name) THEN name ELSE visitors[i].name)
    /\ visitors'[i].gender = (IF Truthy(gender) THEN gender ELSE visitors[i].gender)

\* C17 (as claimed): login_or_register on an existing email leaves the name
\* (resp. gender) as it was when none is sent, and replaces it by the value
\* sent otherwise.
C17_DescriptiveFields ==
    [][ last'.op = "login_or_register" =>
            \A i \in Rows, name \in OptNames, gender \in OptGenders :
                ( /\ Some(visitors[i].email) = last'.email
                  /\ login_or_register(visitors[i].email, name, gender, last'.token[1]) )
                => C17_Replaced(i, name, gender) ]_vars

\* C17 (amended): a successful login_or_register on an existing email leaves
\* the name (resp. gender) as it was when none or an empty one is sent, and
\* replaces it by the value sent when that is not empty.
C17_DescriptiveFieldsIfNotEmpty ==
    [][ (last'.op = "login_or_register" /\ last'.status = "200") =>
            \A i \in Rows, name \in OptNames, gender \in OptGenders :
                ( /\ Some(visitors[i].email) = last'.email
                  /\ login_or_register(visitors[i].email, name, gender, last'.token[1]) )
                => C17_ReplacedIfNotEmpty(i, name, gender) ]_vars

\* a later login of the visitor, whose row has a name and no gender
C17_Witness ==
    /\ last.op = "login_or_register" /\ last.status = "200" /\ ~last.is_new_user
    /\ Truthy(visitors[last.id].name)
    /\ visitors[last.id].gender = None
    /\ visitors[last.id].joined_at < now

\* C20: a visitor once created is never deleted and its id, email and
\* joined_at never change; a step changes at most the name, gender,
\* virtual_nfc_id and physical_card_id of a row.
C20_IdentityImmutable ==
    [][ \A i \in Rows :
            /\ i \in DOMAIN visitors'
            /\ visitors'[i].email = visitors[i].email
            /\ visitors'[i].joined_at = visitors[i].joined_at
            /\ DOMAIN visitors'[i] = DOMAIN visitors[i] ]_vars

\* hours after it joined, the visitor logged in again and its row, with a
\* linked card, holds the virtual id just sent
C20_Witness ==
    /\ last.op = "login_or_register" /\ last.status = "200" /\ ~last.is_new_user
    /\ visitors[last.id].joined_at < now
    /\ visitors[last.id].virtual_nfc_id = last.token
    /\ visitors[last.id].physical_card_id /= None
    /\ visitors[last.id].physical_card_id /= last.token

----------------------------------------------------------------------------
(* Claims on the photo references and on the effect of a link *)

\* C21: every photo of the table refers to a visitor and a room that exist:
\* an upload naming an absent visitor or an absent room answers 404 and stores
\* nothing, and no step leaves a photo whose visitor or room is gone.
C21_PhotoReferences ==
    [][ /\ ( /\ now' = now
             /\ last'.op = "upload_photo"
             /\ last'.user_id \notin Rows \/ last'.room_id \notin DOMAIN rooms )
            => last'.status = "404" /\ photos' = photos
        /\ \A p \in DOMAIN photos' :
            /\ photos'[p].visitor_id \in DOMAIN visitors'
            /\ photos'[p].room_id \in DOMAIN rooms' ]_vars

\* with photos in the table, an upload of the visitor for a room that does not
\* exist was refused
C21_Witness ==
    /\ last.op = "upload_photo" /\ last.status = "404"
    /\ last.user_id \in Rows
    /\ last.room_id \notin DOMAIN rooms
    /\ \E p \in DOMAIN photos : photos[p].visitor_id = last.user_id

\* C22 (as claimed): a scan of the value that a register_virtual_nfc or
\* link_physical_card has just bound to a visitor is granted to that visitor,
\* under its name (or its email prefix when it has no name), and to no other.
C22_ScanAfterLink ==
    [][ ( /\ last.op \in {"register_virtual_nfc", "link_physical_card"}
          /\ last.status = "200"
          /\ last'.op = "scan_at_gate"
          /\ last'.token = last.token )
        => /\ last'.status = "ACCESS_GRANTED"
           /\ last'.id = last.user_id
           /\ last'.user_name = Some(DisplayName(visitors[last.user_id])) ]_vars

\* the gate let in the holder of a phone id on the scan of a value that is
\* another visitor's linked card
C22_Witness ==
    /\ last.op = "scan_at_gate" /\ last.status = "ACCESS_GRANTED"
    /\ last.id \in VirtualOwners(last.token) \ PhysicalOwners(last.token)
    /\ PhysicalOwners(last.token) /= {}
    /\ last.user_name = Some(DisplayName(visitors[last.id]))

\* what a successful link leaves of the table: the row of user_id with value
\* in column slot and nothing else changed, every other row as it was
OnlySlotChanged(user_id, slot, value) ==
    /\ DOMAIN visitors' = Rows
    /\ \A i \in Rows \ {user_id} : visitors'[i] = visitors[i]
    /\ DOMAIN visitors'[user_id] = DOMAIN visitors[user_id]
    /\ \A c \in DOMAIN visitors[user_id] :
        visitors'[user_id][c] = (IF c = slot THEN value ELSE visitors[user_id][c])

\* C23: a successful register_virtual_nfc changes only the virtual_nfc_id of
\* the visitor it names, and a successful link_physical_card only its
\* physical_card_id; every other column and every other visitor is unchanged.
C23_OnlySlotChanged ==
    [][ /\ (last'.op = "register_virtual_nfc" /\ last'.status = "200")
            => OnlySlotChanged(last'.user_id, "virtual_nfc_id", last'.token)
        /\ (last'.op = "link_physical_card" /\ last'.status = "200")
            => OnlySlotChanged(last'.user_id, "physical_card_id", last'.token) ]_vars

\* a register_virtual_nfc succeeded for a visitor with a name and a linked
\* card, next to another visitor with a phone id of its own
C23_Witness ==
    /\ last.op = "register_virtual_nfc" /\ last.status = "200"
    /\ visitors[last.user_id].virtual_nfc_id = last.token
    /\ visitors[last.user_id].physical_card_id /= None
    /\ Truthy(visitors[last.user_id].name)
    /\ \E i \in Rows \ {last.user_id} : visitors[i].virtual_nfc_id /= None

====
